---- MODULE Spec2Model ----
(***************************************************************************)
(* Model of the TodoApp component (src/src/components/TodoApp.tsx): the    *)
(* task list held in React state, the edit session, the two effects that   *)
(* load it from and save it to localStorage under the key "todos", and the *)
(* handlers the rendered controls call.                                    *)
(*                                                                         *)
(* Texts are sequences of one-character strings.  A Date is its time value *)
(* in milliseconds, NaN for an Invalid Date.  A stored string is modelled  *)
(* by how JSON.parse reads it: unparsable text, or the JSON value it       *)
(* denotes.                                                                *)
(***************************************************************************)
EXTENDS Integers, Sequences, FiniteSets, TLC

VARIABLES tasks, newTaskText, editingId, editingText, storage, now, pc,
          pending, mountItem, unloaded, last

vars == <<tasks, newTaskText, editingId, editingText, storage, now, pc,
          pending, mountItem, unloaded, last>>

(***************************************************************************)
(* Bounds                                                                  *)
(***************************************************************************)
MaxTasks == 2
MaxClock == 2

(***************************************************************************)
(* Values                                                                  *)
(***************************************************************************)
\* what the user types: empty, blank, and padded on either side; a text
\* without padding reaches the edit field from the task that startEditing opens
Texts == {<<>>, <<" ">>, <<" ", "a">>, <<"b", " ">>}

EmptyText == <<>>

\* editingId is string | null
Null == "null"

\* the time value of an Invalid Date
NaN == -1

IsWhite(c) == c = " "

RECURSIVE TrimStart(_)
TrimStart(s) ==
  IF s = <<>> THEN s
  ELSE IF IsWhite(Head(s)) THEN TrimStart(Tail(s)) ELSE s

RECURSIVE TrimEnd(_)
TrimEnd(s) ==
  IF s = <<>> THEN s
  ELSE IF IsWhite(s[Len(s)]) THEN TrimEnd(SubSeq(s, 1, Len(s) - 1)) ELSE s

\* String.prototype.trim
Trim(s) == TrimEnd(TrimStart(s))

\* a string is truthy iff it is not empty
Truthy(s) == s # <<>>

\* Date.now().toString()
DateNowToString(ms) == ToString(ms)

(***************************************************************************)
(* Serialized form.  A stored item is null (no item) or a string; a string *)
(* is the empty string, text JSON.parse rejects, or the JSON value it      *)
(* denotes: [t |-> "num"], [t |-> "null"], [t |-> "obj", f |-> fields] or  *)
(* [t |-> "arr", elems |-> sequence of values].  A date-time string is     *)
(* [t |-> "str", iso |-> the time value the Date constructor parses].      *)
(***************************************************************************)
NoItem == [kind |-> "null"]

StringItem(text) == [kind |-> "string", text |-> text]

EmptyString == StringItem([t |-> "empty"])

Unparsable == StringItem([t |-> "unparsable"])

\* Date.prototype.toJSON: toISOString of a valid date, null of an invalid one
DateToJSON(d) == IF d = NaN THEN [t |-> "null"] ELSE [t |-> "str", iso |-> d]

\* variant of NewDate: new Date() with the stored value dropped
NewDateIgnoringValue(v) == now

\* new Date(value): undefined -> Invalid Date, null -> epoch, string -> parsed
NewDate(v) ==
  CASE v.t = "str" -> v.iso
    [] v.t = "null" -> 0
    [] OTHER -> NaN

\* JSON.stringify of one task object: own fields, createdAt through toJSON
TaskToJSON(task) ==
  [t |-> "obj",
   f |-> [k \in DOMAIN task |->
            IF k = "createdAt" THEN DateToJSON(task[k]) ELSE task[k]]]

\* JSON.stringify(tasks)
JSONStringify(ts) == [t |-> "arr", elems |-> [i \in 1..Len(ts) |-> TaskToJSON(ts[i])]]

\* the own enumerable fields an object spread copies from a parsed element
SpreadFields(e) == IF e.t = "obj" THEN e.f ELSE [k \in {} |-> 0]

\* task.createdAt of a parsed element (undefined when the field is missing)
CreatedAtOf(e) ==
  IF "createdAt" \in DOMAIN SpreadFields(e) THEN SpreadFields(e).createdAt
  ELSE [t |-> "undefined"]

\* ({ ...task, createdAt: new Date(task.createdAt) })
Revive(e) ==
  [k \in DOMAIN SpreadFields(e) \cup {"createdAt"} |->
     IF k = "createdAt" THEN NewDate(CreatedAtOf(e)) ELSE SpreadFields(e)[k]]

\* JSON.parse(savedTasks).map(...) throws: SyntaxError from parse, TypeError
\* from .map of a non-array or from reading a property of null
LoadThrows(text) ==
  \/ text.t = "unparsable"
  \/ text.t # "arr"
  \/ /\ text.t = "arr"
     /\ \E i \in 1..Len(text.elems) : text.elems[i].t = "null"

\* JSON.parse(savedTasks).map(...)
ParsedTasks(text) == [i \in 1..Len(text.elems) |-> Revive(text.elems[i])]

\* the load effect reaches setTasks(parsedTasks)
LoadSetsTasks(item) ==
  /\ item.kind = "string"
  /\ item.text.t # "empty"
  /\ ~LoadThrows(item.text)

\* load(): what the collection becomes from a stored item
Load(item) == IF LoadSetsTasks(item) THEN ParsedTasks(item.text) ELSE <<>>

(***************************************************************************)
(* State                                                                   *)
(*   tasks, newTaskText, editingId, editingText : the useState cells       *)
(*   storage  : the localStorage item "todos"                              *)
(*   now      : the clock Date.now() reads                                 *)
(*   pc       : where the component is in its mount sequence               *)
(*   pending  : state updates queued by an effect, not yet rendered        *)
(*   mountItem: history, the item storage held when this session        *)
(*              mounted, until a handler next changes the collection       *)
(*   unloaded : history, the collection the previous session held when it  *)
(*              ended, until a handler next changes the collection         *)
(*   last     : history, the handler called last and its inputs            *)
(***************************************************************************)
None == <<>>

Called(op, id, text) == [op |-> op, id |-> id, text |-> text]

NoCall == Called("none", Null, EmptyText)

\* the first render: every useState cell at its initial value
InitialRender ==
  /\ tasks = <<>>
  /\ newTaskText = EmptyText
  /\ editingId = Null
  /\ editingText = EmptyText
  /\ pending = <<>>
  /\ pc = "loadEffect"

\* a first visit: nothing stored
Init ==
  /\ InitialRender
  /\ storage = NoItem
  /\ now = 1
  /\ mountItem = <<storage>>
  /\ unloaded = None
  /\ last = NoCall

\* variant of LoadEffect: the two effects declared in the other order, so
\* the load reads what the save of the first render has just written
LoadEffectAfterSave ==
  /\ pc = "loadEffect"
  /\ pending' = <<ParsedTasks(JSONStringify(tasks))>>
  /\ pc' = "saveEffect"
  /\ UNCHANGED <<tasks, newTaskText, editingId, editingText, storage, now,
                 mountItem, unloaded, last>>

\* useEffect(..., []): load tasks from localStorage on mount
LoadEffect ==
  /\ pc = "loadEffect"
  /\ pending' = IF LoadSetsTasks(storage) THEN <<ParsedTasks(storage.text)>>
                ELSE <<>>
  /\ pc' = "saveEffect"
  /\ UNCHANGED <<tasks, newTaskText, editingId, editingText, storage, now,
                 mountItem, unloaded, last>>

\* useEffect(..., [tasks]) as it runs after the first render
SaveEffectOnMount ==
  /\ pc = "saveEffect"
  /\ storage' = StringItem(JSONStringify(tasks))
  /\ pc' = IF pending # <<>> THEN "rerender" ELSE "idle"
  /\ UNCHANGED <<tasks, newTaskText, editingId, editingText, now, pending,
                 mountItem, unloaded, last>>

\* variant of SetTasks: the save effect with an empty dependency list
SetTasksUnsaved(next) ==
  /\ tasks' = next
  /\ storage' = storage

\* setTasks(next) followed by the render it causes: tasks is a new array, so
\* the save effect runs
SetTasks(next) ==
  /\ tasks' = next
  /\ storage' = StringItem(JSONStringify(next))

\* the render of the update the load effect queued
Rerender ==
  /\ pc = "rerender"
  /\ SetTasks(pending[1])
  /\ pending' = <<>>
  /\ pc' = "idle"
  /\ UNCHANGED <<newTaskText, editingId, editingText, now, mountItem, unloaded, last>>

(***************************************************************************)
(* Handlers.  Each runs between renders, on the tasks of the last render.  *)
(* The toast calls are presentation and change nothing modelled here.      *)
(***************************************************************************)
\* the Task addTask builds: id from Date.now(), createdAt from new Date(),
\* both read within the one handler run
NewTask(text, clock) ==
  [id |-> DateNowToString(clock),
   text |-> Trim(text),
   completed |-> FALSE,
   createdAt |-> clock]

\* variant of Prepend: the handler memoized over the tasks of the first
\* render, [newTask, ...[]]
PrependToFirstRender(task, ts) == <<task>>

\* variant of Prepend: [...tasks, newTask]
AppendTask(task, ts) == ts \o <<task>>

\* [newTask, ...tasks]
Prepend(task, ts) == <<task>> \o ts

\* onChange of the add input
SetNewTaskText(text) ==
  /\ pc = "idle"
  /\ newTaskText' = text
  /\ last' = Called("setNewTaskText", Null, text)
  /\ UNCHANGED <<tasks, editingId, editingText, storage, now, pc, pending,
                 mountItem, unloaded>>

AddTask ==
  /\ pc = "idle"
  /\ last' = Called("addTask", Null, newTaskText)
  /\ IF Truthy(Trim(newTaskText))
     THEN /\ Len(tasks) < MaxTasks
          /\ SetTasks(Prepend(NewTask(newTaskText, now), tasks))
          /\ newTaskText' = EmptyText
          /\ mountItem' = None /\ unloaded' = None
          /\ UNCHANGED <<editingId, editingText, now, pc, pending>>
     ELSE UNCHANGED <<tasks, newTaskText, editingId, editingText, storage,
                      now, pc, pending, mountItem, unloaded>>

\* variant of ToggleIn: after the flip, completed tasks are moved to the end
ToggleAndSinkIn(ts, id) ==
  LET flipped == [i \in 1..Len(ts) |->
                    IF ts[i].id = id
                    THEN [ts[i] EXCEPT !.completed = ~ts[i].completed]
                    ELSE ts[i]]
  IN SelectSeq(flipped, LAMBDA task : ~task.completed)
       \o SelectSeq(flipped, LAMBDA task : task.completed)

\* variant of ToggleIn: completed: true
MarkDoneIn(ts, id) ==
  [i \in 1..Len(ts) |->
     IF ts[i].id = id THEN [ts[i] EXCEPT !.completed = TRUE] ELSE ts[i]]

\* variant of ToggleIn: the comparison inverted, task.id !== id
ToggleOthersIn(ts, id) ==
  [i \in 1..Len(ts) |->
     IF ts[i].id # id THEN [ts[i] EXCEPT !.completed = ~ts[i].completed]
     ELSE ts[i]]

\* tasks.map(task => task.id === id ? {...task, completed: !task.completed} : task)
ToggleIn(ts, id) ==
  [i \in 1..Len(ts) |->
     IF ts[i].id = id THEN [ts[i] EXCEPT !.completed = ~ts[i].completed]
     ELSE ts[i]]

\* variant of ToggleTask: the toggle also ends the edit session
ToggleTaskEndsEdit(id) ==
  /\ pc = "idle"
  /\ SetTasks(ToggleIn(tasks, id))
  /\ editingId' = Null
  /\ editingText' = EmptyText
  /\ mountItem' = None /\ unloaded' = None
  /\ last' = Called("toggleTask", id, EmptyText)
  /\ UNCHANGED <<newTaskText, now, pc, pending>>

ToggleTask(id) ==
  /\ pc = "idle"
  /\ SetTasks(ToggleIn(tasks, id))
  /\ mountItem' = None /\ unloaded' = None
  /\ last' = Called("toggleTask", id, EmptyText)
  /\ UNCHANGED <<newTaskText, editingId, editingText, now, pc, pending>>

\* variant of DeleteIn: findIndex and splice, the first match only
DeleteFirstIn(ts, id) ==
  IF \E k \in 1..Len(ts) : ts[k].id = id
  THEN LET k == CHOOSE k \in 1..Len(ts) :
                  /\ ts[k].id = id
                  /\ \A j \in 1..(k - 1) : ts[j].id # id
       IN SubSeq(ts, 1, k - 1) \o SubSeq(ts, k + 1, Len(ts))
  ELSE ts

\* tasks.filter(task => task.id !== id)
DeleteIn(ts, id) == SelectSeq(ts, LAMBDA task : task.id # id)

DeleteTask(id) ==
  /\ pc = "idle"
  /\ SetTasks(DeleteIn(tasks, id))
  /\ mountItem' = None /\ unloaded' = None
  /\ last' = Called("deleteTask", id, EmptyText)
  /\ UNCHANGED <<newTaskText, editingId, editingText, now, pc, pending>>

StartEditing(id, text) ==
  /\ pc = "idle"
  /\ editingId' = id
  /\ editingText' = text
  /\ last' = Called("startEditing", id, text)
  /\ UNCHANGED <<tasks, newTaskText, storage, now, pc, pending, mountItem, unloaded>>

\* onChange of the edit input
SetEditingText(text) ==
  /\ pc = "idle"
  /\ editingText' = text
  /\ last' = Called("setEditingText", editingId, text)
  /\ UNCHANGED <<tasks, newTaskText, editingId, storage, now, pc, pending,
                 mountItem, unloaded>>

\* variant of EditIn: the task rebuilt instead of spread
EditRebuildsIn(ts, id, text) ==
  [i \in 1..Len(ts) |->
     IF ts[i].id = id
     THEN [id |-> ts[i].id, text |-> Trim(text), completed |-> FALSE,
           createdAt |-> now]
     ELSE ts[i]]

\* variant of EditIn: text: editingText
EditInUntrimmed(ts, id, text) ==
  [i \in 1..Len(ts) |->
     IF ts[i].id = id THEN [ts[i] EXCEPT !.text = text] ELSE ts[i]]

\* tasks.map(task => task.id === editingId ? {...task, text: editingText.trim()} : task)
EditIn(ts, id, text) ==
  [i \in 1..Len(ts) |->
     IF ts[i].id = id THEN [ts[i] EXCEPT !.text = Trim(text)] ELSE ts[i]]

\* editingId is truthy: neither null nor the empty string
TruthyId(id) == id # Null /\ id # ""

\* variant of SaveEdit: the edit session is left open after the save
SaveEditKeepsSession ==
  /\ pc = "idle"
  /\ last' = Called("saveEdit", editingId, editingText)
  /\ IF Truthy(Trim(editingText)) /\ TruthyId(editingId)
     THEN /\ SetTasks(EditIn(tasks, editingId, editingText))
          /\ mountItem' = None /\ unloaded' = None
          /\ UNCHANGED <<newTaskText, editingId, editingText, now, pc,
                         pending>>
     ELSE UNCHANGED <<tasks, newTaskText, editingId, editingText, storage,
                      now, pc, pending, mountItem, unloaded>>

\* variant of SaveEdit: the guard tests editingText, not editingText.trim()
SaveEditUntrimmedGuard ==
  /\ pc = "idle"
  /\ last' = Called("saveEdit", editingId, editingText)
  /\ IF Truthy(editingText) /\ TruthyId(editingId)
     THEN /\ SetTasks(EditIn(tasks, editingId, editingText))
          /\ editingId' = Null
          /\ editingText' = EmptyText
          /\ mountItem' = None /\ unloaded' = None
          /\ UNCHANGED <<newTaskText, now, pc, pending>>
     ELSE UNCHANGED <<tasks, newTaskText, editingId, editingText, storage,
                      now, pc, pending, mountItem, unloaded>>

\* variant of SaveEdit: blank text cancels the edit
SaveEditBlankCancels ==
  /\ pc = "idle"
  /\ last' = Called("saveEdit", editingId, editingText)
  /\ IF Truthy(Trim(editingText)) /\ TruthyId(editingId)
     THEN /\ SetTasks(EditIn(tasks, editingId, editingText))
          /\ editingId' = Null
          /\ editingText' = EmptyText
          /\ mountItem' = None /\ unloaded' = None
          /\ UNCHANGED <<newTaskText, now, pc, pending>>
     ELSE /\ editingId' = Null
          /\ editingText' = EmptyText
          /\ UNCHANGED <<tasks, newTaskText, storage, now, pc, pending,
                         mountItem, unloaded>>

SaveEdit ==
  /\ pc = "idle"
  /\ last' = Called("saveEdit", editingId, editingText)
  /\ IF Truthy(Trim(editingText)) /\ TruthyId(editingId)
     THEN /\ SetTasks(EditIn(tasks, editingId, editingText))
          /\ editingId' = Null
          /\ editingText' = EmptyText
          /\ mountItem' = None /\ unloaded' = None
          /\ UNCHANGED <<newTaskText, now, pc, pending>>
     ELSE UNCHANGED <<tasks, newTaskText, editingId, editingText, storage,
                      now, pc, pending, mountItem, unloaded>>

CancelEdit ==
  /\ pc = "idle"
  /\ editingId' = Null
  /\ editingText' = EmptyText
  /\ last' = Called("cancelEdit", Null, EmptyText)
  /\ UNCHANGED <<tasks, newTaskText, storage, now, pc, pending, mountItem, unloaded>>

(***************************************************************************)
(* Statistics: derived at every render, not stored                         *)
(***************************************************************************)
\* tasks.filter(task => task.completed)
CompletedTasks(ts) == SelectSeq(ts, LAMBDA task : task.completed)

\* variant of PendingTasks: the filter dropped
PendingAllOf(ts) == ts

\* tasks.filter(task => !task.completed)
PendingTasks(ts) == SelectSeq(ts, LAMBDA task : ~task.completed)

\* the three counters the statistics cards show
Stats(ts) ==
  [total |-> Len(ts),
   pending |-> Len(PendingTasks(ts)),
   completed |-> Len(CompletedTasks(ts))]

(***************************************************************************)
(* What the rendered page offers                                           *)
(***************************************************************************)
\* the row of a task shows the edit input instead of its text and buttons
UnderEdit(task) == editingId = task.id

\* some row shows the edit input with its Save and Cancel buttons
EditInputShown == \E i \in 1..Len(tasks) : UnderEdit(tasks[i])

\* the circle button of every row
ClickToggle == \E i \in 1..Len(tasks) : ToggleTask(tasks[i].id)

\* the pencil and bin buttons of a row not under edit
ClickEdit ==
  \E i \in 1..Len(tasks) :
    /\ ~UnderEdit(tasks[i])
    /\ StartEditing(tasks[i].id, tasks[i].text)

\* variant of ClickDelete: the bin button shown on the row under edit too
ClickDeleteAnyRow == \E i \in 1..Len(tasks) : DeleteTask(tasks[i].id)

ClickDelete ==
  \E i \in 1..Len(tasks) :
    /\ ~UnderEdit(tasks[i])
    /\ DeleteTask(tasks[i].id)

TypeNewTask == \E text \in Texts : SetNewTaskText(text)

TypeEdit == EditInputShown /\ \E text \in Texts : SetEditingText(text)

\* the Add button is disabled on blank text, Enter in the input is not
SubmitNewTask == AddTask

SubmitEdit == EditInputShown /\ SaveEdit

ClickCancel == EditInputShown /\ CancelEdit

(***************************************************************************)
(* Environment                                                             *)
(***************************************************************************)
Tick ==
  /\ now < MaxClock
  /\ now' = now + 1
  /\ UNCHANGED <<tasks, newTaskText, editingId, editingText, storage, pc,
                 pending, mountItem, unloaded, last>>

\* the page is closed and opened again: React state is lost, storage is kept
Reload ==
  /\ pc = "idle"
  /\ tasks' = <<>>
  /\ newTaskText' = EmptyText
  /\ editingId' = Null
  /\ editingText' = EmptyText
  /\ pending' = <<>>
  /\ pc' = "loadEffect"
  /\ mountItem' = <<storage>>
  /\ unloaded' = <<tasks>>
  /\ last' = NoCall
  /\ UNCHANGED <<storage, now>>

Next ==
  \/ LoadEffect
  \/ SaveEffectOnMount
  \/ Rerender
  \/ TypeNewTask
  \/ SubmitNewTask
  \/ ClickToggle
  \/ ClickDelete
  \/ ClickEdit
  \/ TypeEdit
  \/ SubmitEdit
  \/ ClickCancel
  \/ Tick
  \/ Reload

Spec == Init /\ [][Next]_vars

TypeOK ==
  /\ pc \in {"loadEffect", "saveEffect", "rerender", "idle"}
  /\ Len(tasks) <= MaxTasks
  /\ now \in 1..MaxClock

(***************************************************************************)
(* Mounting over whatever the storage key holds: a first render over each  *)
(* item of StoredItems, with no user input.                                *)
(***************************************************************************)
\* serialized task records
StoredTasks ==
  {TaskToJSON([id |-> DateNowToString(c), text |-> <<"a">>,
               completed |-> done, createdAt |-> c]) :
     c \in 1..MaxClock, done \in BOOLEAN}

\* array elements: task records, a number, null
StoredElems == StoredTasks \cup {[t |-> "num"], [t |-> "null"]}

StoredArrays ==
  {[t |-> "arr", elems |-> es] : es \in UNION {[1..n -> StoredElems] : n \in 0..2}}

StoredItems ==
  {NoItem, EmptyString, Unparsable}
    \cup {StringItem(v) : v \in {[t |-> "num"], [t |-> "null"],
                                 [t |-> "obj", f |-> [k \in {} |-> 0]]}}
    \cup {StringItem(v) : v \in StoredArrays}

InitStored ==
  /\ InitialRender
  /\ storage \in StoredItems
  /\ now = 1
  /\ mountItem = <<storage>>
  /\ unloaded = None
  /\ last = NoCall

NextMount ==
  \/ LoadEffect
  \/ SaveEffectOnMount
  \/ Rerender
  \/ Reload

SpecMount == InitStored /\ [][NextMount]_vars

(***************************************************************************)
(* One session in which toggleTask and deleteTask are called with any id,  *)
(* as operations of the task store: ids that no task has, and the id of    *)
(* the task under edit, too.  An edit session keeps the text it opened     *)
(* with: neither operation reads editingText.                              *)
(***************************************************************************)
\* ids a caller may pass: every id the clock can give, and one it never gives
Ids == {DateNowToString(c) : c \in 0..MaxClock}

CallToggle == \E id \in Ids : ToggleTask(id)

CallDelete == \E id \in Ids : DeleteTask(id)

NextOps ==
  \/ LoadEffect
  \/ SaveEffectOnMount
  \/ TypeNewTask
  \/ SubmitNewTask
  \/ CallToggle
  \/ CallDelete
  \/ ClickEdit
  \/ SubmitEdit
  \/ ClickCancel
  \/ Tick

SpecOps == Init /\ [][NextOps]_vars

(***************************************************************************)
(* Properties                                                              *)
(***************************************************************************)
Idle == pc = "idle"

Held(id) == \E i \in 1..Len(tasks) : tasks[i].id = id

Blank(text) == ~Truthy(Trim(text))

\* C1: the ids of the tasks held are pairwise distinct in every reachable
\* state, two adds within one clock tick included.
C1_IdsPairwiseDistinct ==
  \A i, j \in 1..Len(tasks) : i # j => tasks[i].id # tasks[j].id

\* C2: once the mount effects of a session have settled, the collection is
\* the one the previous session held when it ended, and storage holds again
\* the item that session left.
C2_SessionRestored ==
  (Idle /\ unloaded # None /\ mountItem # None)
    => (tasks = unloaded[1] /\ storage = mountItem[1])

C2_Witness ==
  /\ Idle
  /\ unloaded # None
  /\ mountItem # None
  /\ Len(tasks) = 2
  /\ \E i \in 1..Len(tasks) : tasks[i].completed

\* C3: whenever the component is ready for the next user action, storage
\* holds the serialization of the whole collection, in its order.
C3_WriteThrough == Idle => storage = StringItem(JSONStringify(tasks))

C3_Witness ==
  /\ Idle
  /\ last.op = "deleteTask"
  /\ Len(tasks) = 1
  /\ storage.text.elems # <<>>

\* a stored item that is a serialized array of well-formed task records
WellFormedRecord(e) ==
  /\ e.t = "obj"
  /\ DOMAIN e.f = {"id", "text", "completed", "createdAt"}
  /\ e.f.createdAt.t = "str"
  /\ e.f.createdAt.iso # NaN

WellFormedItem(item) ==
  /\ item.kind = "string"
  /\ item.text.t = "arr"
  /\ \A i \in 1..Len(item.text.elems) : WellFormedRecord(item.text.elems[i])

\* C4: after mount over a stored item that is absent or not a serialized
\* array of well-formed task records, the collection is empty.
C4_MalformedYieldsEmpty ==
  (Idle /\ mountItem # None /\ ~WellFormedItem(mountItem[1])) => tasks = <<>>

\* a valid task sequence: distinct ids, non-empty text, valid createdAt
ValidTasks(ts) ==
  /\ \A i, j \in 1..Len(ts) : i # j => ts[i].id # ts[j].id
  /\ \A i \in 1..Len(ts) :
       /\ DOMAIN ts[i] = {"id", "text", "completed", "createdAt"}
       /\ Truthy(ts[i].text)
       /\ ts[i].completed \in BOOLEAN
       /\ ts[i].createdAt # NaN

\* C5: loading what save wrote for a valid task sequence gives back the
\* sequence: same length, order, and id, text, completed, createdAt of each.
C5_RoundTrip ==
  ValidTasks(tasks) => Load(StringItem(JSONStringify(tasks))) = tasks

C5_Witness ==
  /\ Idle
  /\ unloaded # None
  /\ Len(tasks) = 2
  /\ ValidTasks(tasks)
  /\ tasks[1].completed
  /\ tasks[2].createdAt < now

\* C6: addTask on blank text leaves the collection as it is; otherwise the
\* collection grows by one task, at the front, not completed, its text the
\* trimmed input, and the tasks held before follow it unchanged.
C6_Add ==
  [][AddTask =>
       IF Blank(newTaskText) THEN tasks' = tasks
       ELSE /\ Len(tasks') = Len(tasks) + 1
            /\ tasks'[1].completed = FALSE
            /\ tasks'[1].text = Trim(newTaskText)
            /\ \A i \in 1..Len(tasks) : tasks'[i + 1] = tasks[i]]_vars

C6_Witness ==
  /\ last.op = "addTask"
  /\ last.text = <<" ", "a">>
  /\ Len(tasks) = 2
  /\ tasks[1].text = <<"a">>

\* C7: every task held has text that is not empty, not blank, and equal to
\* its own trim.
C7_TextTrimmedNonEmpty ==
  \A i \in 1..Len(tasks) :
    /\ tasks[i].text # EmptyText
    /\ ~Blank(tasks[i].text)
    /\ Trim(tasks[i].text) = tasks[i].text

C7_Witness ==
  /\ last.op = "saveEdit"
  /\ last.text = <<"b", " ">>
  /\ \E i \in 1..Len(tasks) : tasks[i].id = last.id /\ tasks[i].text = <<"b">>

\* C8: saveEdit on blank text while a held task is under edit leaves the
\* collection as it is.
C8_BlankEditKeepsTasks ==
  [][(SaveEdit /\ Held(editingId) /\ Blank(editingText))
       => tasks' = tasks]_vars

C8_Witness ==
  /\ last.op = "saveEdit"
  /\ Blank(last.text)
  /\ Held(last.id)
  /\ \E i \in 1..Len(tasks) : tasks[i].completed

\* C9 as claimed: after saveEdit on blank text the edit session is cleared,
\* as after cancelEdit.
C9_BlankEditClearsSession ==
  (Idle /\ last.op = "saveEdit" /\ Blank(last.text))
    => (editingId = Null /\ editingText = EmptyText)

\* C9 as amended: saveEdit on blank text changes nothing; the edit session
\* stays open on the same task with the text as typed.
C9_BlankEditKeepsSession ==
  (Idle /\ last.op = "saveEdit" /\ Blank(last.text))
    => (editingId = last.id /\ editingText = last.text)

C9_Witness ==
  /\ Idle
  /\ last.op = "saveEdit"
  /\ last.text = <<" ">>
  /\ Held(editingId)

\* C10: toggleTask twice in succession on the same id gives back the
\* collection: after any toggle step, a second toggle of that id restores it.
C10_ToggleTwice ==
  [][\A i \in 1..Len(tasks) :
       ToggleTask(tasks[i].id) => ToggleIn(tasks', tasks[i].id) = tasks]_vars

C10_Witness ==
  /\ last.op = "toggleTask"
  /\ Len(tasks) = 2
  /\ \E i \in 1..Len(tasks) : tasks[i].id = last.id /\ ~tasks[i].completed
  /\ \E i \in 1..Len(tasks) : tasks[i].id # last.id

\* the positions of ts whose task has the id
Matches(ts, id) == {k \in 1..Len(ts) : ts[k].id = id}

\* new is old without the tasks of that id: the others are all there,
\* unchanged and in the order they had
RemovedOnly(old, new, id) ==
  /\ Len(new) = Len(old) - Cardinality(Matches(old, id))
  /\ \A i \in 1..Len(old) :
       old[i].id # id =>
         new[i - Cardinality({k \in Matches(old, id) : k < i})] = old[i]

\* C11: deleteTask(id) removes the tasks of that id and leaves every other
\* task and their order; a second deleteTask(id) changes nothing.  The id of
\* the call is the one the step records in last.
C11_DeleteIdempotent ==
  [][(last'.op = "deleteTask" /\ DeleteTask(last'.id)) =>
       /\ RemovedOnly(tasks, tasks', last'.id)
       /\ DeleteIn(tasks', last'.id) = tasks']_vars

C11_Witness ==
  /\ last.op = "deleteTask"
  /\ last.id = "1"
  /\ Len(tasks) = 1
  /\ tasks[1].completed

\* C12: toggleTask(id) and deleteTask(id) with an id that no task has leave
\* the collection as it is.
C12_AbsentIdNoOp ==
  [][(/\ ~Held(last'.id)
      /\ last'.op \in {"toggleTask", "deleteTask"}
      /\ (ToggleTask(last'.id) \/ DeleteTask(last'.id)))
       => tasks' = tasks]_vars

C12_Witness ==
  /\ last.op = "toggleTask"
  /\ last.id = "0"
  /\ Len(tasks) = 2
  /\ tasks[2].completed

\* one task at two moments: its id and creation time
SameTask(a, b) == a.id = b.id /\ a.createdAt = b.createdAt

\* the tasks of new are tasks of old, in the order they had in old
KeepsOrder(old, new) ==
  \E f \in [1..Len(new) -> 1..Len(old)] :
    /\ \A k \in 1..Len(new) : SameTask(new[k], old[f[k]])
    /\ \A j, k \in 1..Len(new) : j < k => f[j] < f[k]

\* the collection runs from the task added last to the one added first
NewestFirst ==
  \A i, j \in 1..Len(tasks) :
    i < j => tasks[i].createdAt >= tasks[j].createdAt

OrderStep ==
  /\ (\/ last'.op = "toggleTask" /\ Held(last'.id) /\ ToggleTask(last'.id)
      \/ last'.op = "saveEdit" /\ SaveEdit)
       => /\ Len(tasks') = Len(tasks)
          /\ \A i \in 1..Len(tasks) : SameTask(tasks'[i], tasks[i])
  /\ (last'.op = "deleteTask" /\ Held(last'.id) /\ DeleteTask(last'.id))
       => KeepsOrder(tasks, tasks')
  /\ (last'.op = "addTask" /\ ~Blank(newTaskText) /\ AddTask)
       => /\ Len(tasks') = Len(tasks) + 1
          /\ tasks'[1].text = Trim(newTaskText)
          /\ \A i \in 1..Len(tasks) : SameTask(tasks'[i + 1], tasks[i])

C14_DeletedIdNotReused ==
  [][(AddTask /\ ~Blank(newTaskText) /\ last.op = "deleteTask")
       => tasks'[1].id # last.id]_vars

\* C15: the statistics are those of the current collection: total is its
\* length, completed and pending count the tasks with completed true and
\* false, and total = pending + completed.
C15_StatsDerived ==
  LET st == Stats(tasks) IN
    /\ st.total = Len(tasks)
    /\ st.completed = Cardinality({i \in 1..Len(tasks) : tasks[i].completed})
    /\ st.pending = Cardinality({i \in 1..Len(tasks) : ~tasks[i].completed})
    /\ st.total = st.pending + st.completed

C15_Witness ==
  /\ Idle
  /\ Len(tasks) = 2
  /\ Stats(tasks) = [total |-> 2, pending |-> 1, completed |-> 1]

\* a task with at most its completed flag flipped or its text replaced
EditedOrToggled(old, new) ==
  \/ new = [old EXCEPT !.completed = ~old.completed]
  \/ new = [old EXCEPT !.text = new.text]

\* the new collection is made from the current one by one operation:
\* nothing, one task put in front, the tasks of one id changed in place, or
\* the tasks of one id removed
FromCurrent(old, new) ==
  \/ new = old
  \/ /\ Len(new) = Len(old) + 1
     /\ \A i \in 1..Len(old) : new[i + 1] = old[i]
  \/ /\ Len(new) = Len(old)
     /\ \E k \in 1..Len(old) :
          \A i \in 1..Len(old) :
            IF old[i].id = old[k].id THEN EditedOrToggled(old[i], new[i])
            ELSE new[i] = old[i]
  \/ \E k \in 1..Len(old) : RemovedOnly(old, new, old[k].id)

\* C16: every handler makes the new collection from the collection all the
\* handlers before it have produced; no step loses what an earlier one did.
C16_NoLostUpdate == [][(Idle /\ pc' = "idle") => FromCurrent(tasks, tasks')]_vars

C16_Witness ==
  /\ last.op = "addTask"
  /\ Len(tasks) = 2
  /\ tasks[2].completed
  /\ tasks[2].text = <<"b">>
  /\ tasks[1].text = <<"a">>

\* C17: saveEdit with non-blank text while a held task is under edit sets
\* the text of the tasks of editingId to the trimmed text and changes
\* nothing else of them or of any other task; the edit session is cleared.
C17_EditChangesTextOnly ==
  [][(SaveEdit /\ ~Blank(editingText) /\ Held(editingId)) =>
       /\ Len(tasks') = Len(tasks)
       /\ \A i \in 1..Len(tasks) :
            IF tasks[i].id = editingId
            THEN /\ tasks'[i].text = Trim(editingText)
                 /\ tasks'[i].id = tasks[i].id
                 /\ tasks'[i].completed = tasks[i].completed
                 /\ tasks'[i].createdAt = tasks[i].createdAt
            ELSE tasks'[i] = tasks[i]
       /\ editingId' = Null
       /\ editingText' = EmptyText]_vars

C17_Witness ==
  /\ last.op = "saveEdit"
  /\ last.text = <<"b", " ">>
  /\ editingId = Null
  /\ Len(tasks) = 2
  /\ \E i \in 1..Len(tasks) :
       /\ tasks[i].id = last.id
       /\ tasks[i].text = <<"b">>
       /\ tasks[i].completed
  /\ \E i \in 1..Len(tasks) : tasks[i].id # last.id

LifecycleStep ==
  (Idle /\ pc' = "idle") =>
    /\ Len(tasks') = Len(tasks) =>
         \A i \in 1..Len(tasks) :
           /\ SameTask(tasks'[i], tasks[i])
           /\ tasks'[i].completed # tasks[i].completed
                => ToggleTask(tasks[i].id)
    /\ Len(tasks') < Len(tasks) =>
         \E k \in 1..Len(tasks) :
           /\ DeleteTask(tasks[k].id)
           /\ RemovedOnly(tasks, tasks', tasks[k].id)
    /\ Len(tasks') > Len(tasks) =>
         \A i \in 1..Len(tasks) : tasks'[i + 1] = tasks[i]

\* C18: a task's completed flag changes only in a toggleTask step on its
\* id, a task leaves the collection only in a deleteTask step on its id,
\* and its id and createdAt never change while it is held.
C18_TaskLifecycle == [][LifecycleStep]_vars

C18_Witness ==
  /\ last.op = "deleteTask"
  /\ Len(tasks) = 1
  /\ tasks[1].completed
  /\ tasks[1].text = <<"b">>
  /\ tasks[1].createdAt < now

\* C19: with the actions the page offers, editingId is null or the id of a
\* task held.
C19_EditingIdHeld == editingId = Null \/ Held(editingId)

C19_Witness ==
  /\ last.op = "deleteTask"
  /\ editingId # Null
  /\ Held(editingId)

\* C20: toggleTask on the task under edit leaves the edit session as it is,
\* and saving the edit after the toggle gives the collection that toggling
\* after the save gives: the new trimmed text and the flipped flag.
C20_ToggleCommutesWithEdit ==
  [][(/\ last'.op = "toggleTask"
      /\ last'.id = editingId
      /\ ToggleTask(editingId)) =>
       /\ editingId' = editingId
       /\ editingText' = editingText
       /\ \A text \in Texts :
            ~Blank(text) =>
              /\ EditIn(tasks', editingId, text)
                   = ToggleIn(EditIn(tasks, editingId, text), editingId)
              /\ \A i \in Matches(tasks, editingId) :
                   /\ EditIn(tasks', editingId, text)[i].text = Trim(text)
                   /\ EditIn(tasks', editingId, text)[i].completed
                        = ~tasks[i].completed]_vars

C20_Witness ==
  /\ last.op = "toggleTask"
  /\ editingId = last.id
  /\ editingText = <<"b", " ">>
  /\ \E i \in 1..Len(tasks) :
       /\ tasks[i].id = editingId
       /\ tasks[i].completed
       /\ tasks[i].text = <<"a">>

====
